---- MODULE Spec2Model ----
(***************************************************************************)
(* Model of transform/downscale_local_mean/downscale_local_mean.py:        *)
(* block_reduce (pad the image to a multiple of the block size, view it as *)
(* blocks, reduce every block) and its wrapper downscale_local_mean.       *)
(*                                                                         *)
(* An array is a record [kind, shape, data]: kind tells a numpy ndarray    *)
(* from a TensorFlow tensor, shape is the tuple of extents and data maps   *)
(* every 0-based multi-index (a tuple as long as shape) to its element.    *)
(* Reduced values are float64 in the code; they are modelled exactly, as   *)
(* fractions <<numerator, denominator>> in lowest terms.                   *)
(***************************************************************************)
EXTENDS Integers, Sequences, FiniteSets, TLC

\* ---- bounds of the model ------------------------------------------------
MaxRank == 2
MaxExtent == 3
MaxElems == 4
MaxVal == 1
MaxBlock == 2
MaxCval == 1

\* tf.pad(image, pad_width, "CONSTANT") is called without constant_values,
\* whose default is 0.
PadConstant == 0

VARIABLES pc, entry, arg, block_size, func, cval, image, i, pad_width,
          blocked, result, out, err

vars == <<pc, entry, arg, block_size, func, cval, image, i, pad_width,
          blocked, result, out, err>>

\* ---- arrays -------------------------------------------------------------
RECURSIVE Indices(_)
Indices(shape) ==
    IF shape = <<>> THEN {<<>>}
    ELSE {<<j>> \o rest : j \in 0..(shape[1] - 1), rest \in Indices(Tail(shape))}

RECURSIVE Prod(_)
Prod(s) == IF s = <<>> THEN 1 ELSE s[1] * Prod(Tail(s))

NoArray == [kind |-> "none", shape |-> <<>>, data |-> <<>>]

Shapes ==
    {sh \in UNION {[1..d -> 0..MaxExtent] : d \in 1..MaxRank} : Prod(sh) <= MaxElems}

NdArrays ==
    UNION {{[kind |-> "ndarray", shape |-> sh, data |-> d] :
               d \in [Indices(sh) -> 0..MaxVal]} : sh \in Shapes}

BlockSizes == UNION {[1..d -> 0..MaxBlock] : d \in 1..MaxRank}

Cvals == 0..MaxCval

ndim(a) == Len(a.shape)

\* ---- float64 values, exactly ---------------------------------------------
RECURSIVE GCD(_, _)
GCD(a, b) == IF b = 0 THEN a ELSE GCD(b, a % b)

\* <<0, 0>> is nan (the mean of no element).
Rat(n, d) == IF d = 0 THEN <<0, 0>> ELSE LET g == GCD(n, d) IN <<n \div g, d \div g>>

RECURSIVE SumOver(_, _)
SumOver(S, d) ==
    IF S = {} THEN 0
    ELSE LET x == CHOOSE y \in S : TRUE IN d[x] + SumOver(S \ {x}, d)

\* ---- TensorFlow / numpy operations ---------------------------------------
\* Variant of tf_pad that pads every axis on both sides by the trailing width.
tf_pad_both_sides(img, pw) ==
    LET sh == [k \in 1..ndim(img) |-> img.shape[k] + 2 * pw[k][2]]
    IN [kind |-> "tensor",
        shape |-> sh,
        data |-> [idx \in Indices(sh) |->
                    LET src == [k \in 1..ndim(img) |-> idx[k] - pw[k][2]]
                    IN IF src \in DOMAIN img.data THEN img.data[src]
                       ELSE PadConstant]]

convert_to_tensor(a) == [a EXCEPT !.kind = "tensor"]

session_run(a) == [a EXCEPT !.kind = "ndarray"]

tf_pad(img, pw) ==
    LET sh == [k \in 1..ndim(img) |-> img.shape[k] + pw[k][1] + pw[k][2]]
    IN [kind |-> "tensor",
        shape |-> sh,
        data |-> [idx \in Indices(sh) |->
                    LET src == [k \in 1..ndim(img) |-> idx[k] - pw[k][1]]
                    IN IF src \in DOMAIN img.data THEN img.data[src]
                       ELSE PadConstant]]

Divides(img, bs) == \A k \in 1..ndim(img) : img.shape[k] % bs[k] = 0

view_as_blocks(img, bs) ==
    LET D == ndim(img)
        nb == [k \in 1..D |-> img.shape[k] \div bs[k]]
        sh == nb \o bs
    IN [kind |-> "tensor",
        shape |-> sh,
        data |-> [idx \in Indices(sh) |->
                    img.data[[k \in 1..D |-> idx[k] * bs[k] + idx[D + k]]]]]

\* func(blocked, axis=axes): reduce exactly the axes in `axes` (1-based
\* positions), keeping the others in their order.
Apply(f, S, d) ==
    CASE f = "reduce_sum" -> Rat(SumOver(S, d), 1)
      [] f = "reduce_mean" -> Rat(SumOver(S, d), Cardinality(S))

Reduce(f, a, axes) ==
    LET n == ndim(a)
        all == [k \in 1..n |-> k]
        kept == SelectSeq(all, LAMBDA k : k \notin axes)
        gone == SelectSeq(all, LAMBDA k : k \in axes)
        outShape == [j \in 1..Len(kept) |-> a.shape[kept[j]]]
        redShape == [j \in 1..Len(gone) |-> a.shape[gone[j]]]
        Full(o, r) == [k \in 1..n |->
                         IF k \in axes
                         THEN r[Cardinality({x \in axes : x <= k})]
                         ELSE o[k - Cardinality({x \in axes : x < k})]]
    IN [kind |-> "tensor",
        shape |-> outShape,
        data |-> [o \in Indices(outShape) |->
                    Apply(f, {Full(o, r) : r \in Indices(redShape)}, a.data)]]

\* ---- block_reduce, line by line -------------------------------------------
\* Variants of the rank check: one that is never true, one that only
\* rejects a block_size longer than the image's rank.
RankMismatch_never(bs, img) == FALSE

RankMismatch_longer_only(bs, img) == Len(bs) > ndim(img)

\* line 50: len(block_size) != image.ndim
RankMismatch(bs, img) == Len(bs) # ndim(img)

\* Variant of the component check that accepts 0.
IsInvalid_negative_only(b) == b < 0

\* line 56: block_size[i] < 1
IsInvalid(b) == b < 1

\* Variant that pads every axis, divisible or not.
NeedsPad_always(n, b) == TRUE

\* line 58: image.shape[i] % block_size[i] != 0
NeedsPad(n, b) == n % b # 0

\* Variant that forgets the remainder: block_size[i] - image.shape[i].
AfterWidth_no_remainder(n, b) == IF NeedsPad(n, b) THEN b - n ELSE 0

\* lines 58-61
AfterWidth(n, b) == IF NeedsPad(n, b) THEN b - (n % b) ELSE 0

\* Variant that reduces every second axis (an interleaved block view's
\* within-block axes).
ReduceAxes_interleaved(img, blk) == {2 * k : k \in 1..ndim(img)}

\* line 73: axis=tuple(range(image.ndim, blocked.ndim)), as 1-based positions
ReduceAxes(img, blk) == (ndim(img) + 1)..ndim(blk)

Fresh ==
    /\ image = NoArray /\ i = 0 /\ pad_width = <<>>
    /\ blocked = NoArray /\ result = NoArray /\ out = NoArray /\ err = "none"

Init ==
    /\ pc = "idle" /\ entry = "none" /\ arg = NoArray /\ block_size = <<>>
    /\ func = "none" /\ cval = PadConstant
    /\ Fresh

\* A caller invokes block_reduce(image, block_size, func, cval).
CallBlockReduce ==
    /\ pc = "idle"
    /\ \E a \in NdArrays, bs \in BlockSizes, c \in Cvals,
          f \in {"reduce_sum", "reduce_mean"} :
         /\ arg' = a /\ image' = a /\ block_size' = bs /\ cval' = c /\ func' = f
    /\ entry' = "block_reduce" /\ pc' = "L50"
    /\ UNCHANGED <<i, pad_width, blocked, result, out, err>>

\* lines 23-27: downscale_local_mean(image, factors, cval); a tensor is first
\* evaluated to an ndarray, then block_reduce is called with tf.reduce_mean.
CallDownscale ==
    /\ pc = "idle"
    /\ \E a \in NdArrays, isTensor \in BOOLEAN, bs \in BlockSizes, c \in Cvals :
         /\ arg' = (IF isTensor THEN convert_to_tensor(a) ELSE a)
         /\ image' = (IF isTensor THEN session_run(convert_to_tensor(a)) ELSE a)
         /\ block_size' = bs /\ cval' = c
    /\ func' = "reduce_mean"
    /\ entry' = "downscale_local_mean" /\ pc' = "L50"
    /\ UNCHANGED <<i, pad_width, blocked, result, out, err>>

\* lines 50-54
CheckRank ==
    /\ pc = "L50"
    /\ IF RankMismatch(block_size, image)
       THEN /\ pc' = "raised" /\ err' = "RankMismatch"
            /\ UNCHANGED <<i, pad_width>>
       ELSE /\ pc' = "L55" /\ i' = 0 /\ pad_width' = <<>>
            /\ UNCHANGED err
    /\ UNCHANGED <<entry, arg, block_size, func, cval, image, blocked, result, out>>

\* lines 55-62: one iteration of the loop (i is 0-based as in the code)
LoopIter ==
    /\ pc = "L55" /\ i < Len(block_size)
    /\ IF IsInvalid(block_size[i + 1])
       THEN /\ pc' = "raised" /\ err' = "InvalidBlockSize"
            /\ UNCHANGED <<i, pad_width>>
       ELSE IF i + 1 > ndim(image)
       THEN /\ pc' = "raised" /\ err' = "IndexError"
            /\ UNCHANGED <<i, pad_width>>
       ELSE IF block_size[i + 1] = 0
       THEN /\ pc' = "raised" /\ err' = "ZeroDivisionError"
            /\ UNCHANGED <<i, pad_width>>
       ELSE /\ pad_width' =
                 Append(pad_width, <<0, AfterWidth(image.shape[i + 1], block_size[i + 1])>>)
            /\ i' = i + 1
            /\ UNCHANGED <<pc, err>>
    /\ UNCHANGED <<entry, arg, block_size, func, cval, image, blocked, result, out>>

\* line 63: image = tf.convert_to_tensor(image)
Convert ==
    /\ pc = "L55" /\ i = Len(block_size)
    /\ image' = convert_to_tensor(image)
    /\ pc' = "L64"
    /\ UNCHANGED <<entry, arg, block_size, func, cval, i, pad_width, blocked, result, out, err>>

\* Variant of line 64 that pads the caller's array in place.
Pad_in_place ==
    /\ pc = "L64"
    /\ IF Len(pad_width) # ndim(image)
       THEN /\ pc' = "raised" /\ err' = "InvalidArgument" /\ UNCHANGED <<image, arg>>
       ELSE /\ image' = tf_pad(image, pad_width)
            /\ arg' = [image' EXCEPT !.kind = arg.kind]
            /\ pc' = "L67" /\ UNCHANGED err
    /\ UNCHANGED <<entry, block_size, func, cval, i, pad_width, blocked, result, out>>

\* line 64: image = tf.pad(image, pad_width, "CONSTANT")
Pad ==
    /\ pc = "L64"
    /\ IF Len(pad_width) # ndim(image)
       THEN /\ pc' = "raised" /\ err' = "InvalidArgument" /\ UNCHANGED image
       ELSE /\ image' = tf_pad(image, pad_width)
            /\ pc' = "L67" /\ UNCHANGED err
    /\ UNCHANGED <<entry, arg, block_size, func, cval, i, pad_width, blocked, result, out>>

\* lines 67-71: the block view, cast to float64, and both evaluated
View ==
    /\ pc = "L67"
    /\ IF Divides(image, block_size)
       THEN /\ blocked' = session_run(view_as_blocks(image, block_size))
            /\ image' = session_run(image)
            /\ pc' = "L73" /\ UNCHANGED err
       ELSE /\ pc' = "raised" /\ err' = "ShapeMismatch"
            /\ UNCHANGED <<image, blocked>>
    /\ UNCHANGED <<entry, arg, block_size, func, cval, i, pad_width, result, out>>

\* line 73: result = func(blocked, axis=tuple(range(image.ndim, blocked.ndim)))
ReduceBlocks ==
    /\ pc = "L73"
    /\ result' = Reduce(func, blocked, ReduceAxes(image, blocked))
    /\ pc' = "L75"
    /\ UNCHANGED <<entry, arg, block_size, func, cval, image, i, pad_width, blocked, out, err>>

\* line 75 (and line 29 for the wrapper): the value handed back to the caller
Return ==
    /\ pc = "L75"
    /\ out' = (IF entry = "downscale_local_mean"
               THEN convert_to_tensor(session_run(result))
               ELSE session_run(result))
    /\ pc' = "done"
    /\ UNCHANGED <<entry, arg, block_size, func, cval, image, i, pad_width, blocked, result, err>>

\* The call is over (returned or raised); the next call starts afresh.
Reset ==
    /\ pc \in {"done", "raised"}
    /\ pc' = "idle" /\ entry' = "none" /\ arg' = NoArray /\ block_size' = <<>>
    /\ func' = "none" /\ cval' = PadConstant
    /\ image' = NoArray /\ i' = 0 /\ pad_width' = <<>>
    /\ blocked' = NoArray /\ result' = NoArray /\ out' = NoArray /\ err' = "none"

Next ==
    \/ CallBlockReduce \/ CallDownscale \/ CheckRank \/ LoopIter \/ Convert
    \/ Pad \/ View \/ ReduceBlocks \/ Return \/ Reset

Spec == Init /\ [][Next]_vars

\* ---- the two functions as a whole ------------------------------------------
\* lines 54-62: the list pad_width the loop builds
PadWidths(img, bs) ==
    [k \in 1..Len(bs) |-> <<0, AfterWidth(img.shape[k], bs[k])>>]

\* lines 63-75 for arguments that pass validation; cval is a parameter of
\* block_reduce that its body never reads.
block_reduce(img, bs, f, c) ==
    LET padded == session_run(tf_pad(convert_to_tensor(img), PadWidths(img, bs)))
        blk == session_run(view_as_blocks(padded, bs))
    IN session_run(Reduce(f, blk, ReduceAxes(padded, blk)))

\* lines 23-29
downscale_local_mean(img, factors, c) ==
    convert_to_tensor(block_reduce(session_run(img), factors, "reduce_mean", c))

\* ---- vocabulary of the properties ------------------------------------------
InCall == pc # "idle"

Terminal == pc \in {"done", "raised"}

SameRank == Len(block_size) = ndim(arg)

Valid == SameRank /\ \A k \in 1..Len(block_size) : block_size[k] >= 1

Divisible == \A k \in 1..ndim(arg) : arg.shape[k] % block_size[k] = 0

Padded == pc \in {"L67", "L73", "L75", "done"}

Ceil(a, b) == (a + b - 1) \div b

\* The multi-indices of the padded array that make up block b.
BlockCells(b, bs) == {[k \in 1..Len(bs) |-> b[k] * bs[k] + s[k]] : s \in Indices(bs)}

C2_PaddedWithCval ==
    Padded =>
        /\ \A k \in 1..ndim(arg) : image.shape[k] = arg.shape[k] + pad_width[k][2]
        /\ \A idx \in DOMAIN image.data :
              image.data[idx] = (IF idx \in DOMAIN arg.data THEN arg.data[idx] ELSE cval)

C4_MeanWithCval ==
    (pc = "done" /\ entry = "downscale_local_mean") =>
        \A b \in DOMAIN out.data :
            LET cells == BlockCells(b, block_size)
                total == SumOver(cells, [x \in cells |->
                             IF x \in DOMAIN arg.data THEN arg.data[x] ELSE cval])
            IN out.data[b] = Rat(total, Prod(block_size))

\* ---- C5 ---------------------------------------------------------------------
\* C5: rejection law: a call whose block_size has the image's rank and a
\* component < 1 never gets past the validation loop, ends raising
\* InvalidBlockSize and returns no array.
C5_RejectionLaw ==
    (InCall /\ SameRank /\ \E k \in 1..Len(block_size) : block_size[k] < 1) =>
        /\ pc \in {"L50", "L55", "raised"}
        /\ pc = "raised" => err = "InvalidBlockSize"
        /\ out = NoArray /\ result = NoArray

C5_Witness ==
    /\ pc = "raised" /\ err = "InvalidBlockSize"
    /\ Len(block_size) = 2 /\ block_size[1] >= 1 /\ block_size[2] = 0

\* ---- C6 ---------------------------------------------------------------------
\* C6: rank mismatch law: a call with len(block_size) # rank(image) goes no
\* further than the rank check, ends raising RankMismatch and returns no
\* array, whatever the components of block_size are.
C6_RankMismatchLaw ==
    (InCall /\ ~SameRank) =>
        /\ pc \in {"L50", "raised"}
        /\ pc = "raised" => err = "RankMismatch"
        /\ out = NoArray /\ result = NoArray

C6_Witness ==
    /\ pc = "raised" /\ err = "RankMismatch"
    /\ Len(block_size) > ndim(arg) /\ block_size[1] < 1

\* ---- C7 ---------------------------------------------------------------------
\* C7: padding-value law: when every extent of the image is a multiple of
\* the block size, every pad width is (0, 0), the padded array is the image
\* itself, and the call's output is the output of the same call with any
\* other cval.
C7_CvalIrrelevantWhenDivisible ==
    (InCall /\ Valid /\ Divisible) =>
        /\ \A k \in 1..Len(pad_width) : pad_width[k] = <<0, 0>>
        /\ Padded => (image.shape = arg.shape /\ image.data = arg.data)
        /\ pc = "done" =>
              \A c \in Cvals :
                  out = (IF entry = "downscale_local_mean"
                         THEN downscale_local_mean(arg, block_size, c)
                         ELSE block_reduce(arg, block_size, func, c))

C7_Witness ==
    /\ pc = "done" /\ cval # PadConstant
    /\ arg.shape = <<2, 2>> /\ block_size = <<2, 2>>
    /\ out.data[<<0, 0>>] = <<3, 4>>

\* ---- C8 ---------------------------------------------------------------------
\* C8 as stated: a component < 1 at any axis is rejected before the pad
\* width of any axis is computed, and every failure is raised before the
\* image is converted or padded.
C8_RejectedBeforeAnyPadWidth ==
    pc = "raised" =>
        /\ pad_width = <<>>
        /\ image.kind = "ndarray" /\ image.shape = arg.shape /\ image.data = arg.data
        /\ blocked = NoArray /\ result = NoArray

\* C8 amended: a call fails only in validation, with RankMismatch or
\* InvalidBlockSize, and then the image has been neither converted nor padded
\* and nothing has been viewed or reduced; RankMismatch is raised before any
\* pad width is computed, InvalidBlockSize at the first axis whose component
\* is < 1, when pad widths exist for the axes before it and for no other;
\* and a call that reaches the conversion has passed validation.
C8_ValidationPrecedesWork ==
    /\ pc = "raised" =>
          /\ err \in {"RankMismatch", "InvalidBlockSize"}
          /\ image.kind = "ndarray" /\ image.shape = arg.shape /\ image.data = arg.data
          /\ blocked = NoArray /\ result = NoArray /\ out = NoArray
          /\ err = "RankMismatch" => pad_width = <<>>
          /\ err = "InvalidBlockSize" =>
                /\ SameRank
                /\ Len(pad_width) = i
                /\ block_size[i + 1] < 1
                /\ \A k \in 1..i : block_size[k] >= 1
    /\ pc \in {"L64", "L67", "L73", "L75", "done"} => Valid

C8_Witness ==
    /\ pc = "raised" /\ err = "InvalidBlockSize"
    /\ block_size = <<2, 0>> /\ arg.shape = <<1, 2>>
    /\ pad_width = <<(<<0, 1>>)>>

\* ---- C9 ---------------------------------------------------------------------
\* C9: no step of a call changes the caller's array: from the call to its
\* return or failure the array keeps its shape and all its elements.
C9_InputNeverMutated ==
    [][(pc # "idle" /\ pc' # "idle") => arg' = arg]_vars

C9_Witness ==
    /\ pc = "done" /\ arg.shape = <<1, 3>> /\ image.shape = <<2, 4>>
    /\ arg.data[<<0, 2>>] = 1

\* ---- C10 --------------------------------------------------------------------
\* C10: every pad width the loop has computed is (0, extra) with
\* extra = (b - n mod b) mod b for extent n and block size b, so that
\* 0 <= extra < b and (n + extra) mod b = 0.
C10_PadWidthFormula ==
    \A k \in 1..Len(pad_width) :
        LET n == arg.shape[k]
            b == block_size[k]
            extra == pad_width[k][2]
        IN /\ pad_width[k][1] = 0
           /\ extra = (b - (n % b)) % b
           /\ 0 <= extra /\ extra < b
           /\ (n + extra) % b = 0

C10_Witness ==
    /\ pc = "L64" /\ arg.shape = <<0, 3>> /\ block_size = <<2, 2>>
    /\ pad_width = <<(<<0, 0>>), (<<0, 1>>)>>

====
